---- MODULE Spec2Model ----
(***************************************************************************)
(* Model of src/base/arith.rs: the two-variant constant value `Const`      *)
(* (Unsigned(u128) | Signed(i128)) and its operators.                      *)
(*                                                                         *)
(* 128-bit quantities do not fit the model checker's machine integers, so  *)
(* an integer is a record [neg, mag]: its sign and its magnitude as a      *)
(* little-endian sequence of base-256 digits without leading zero digits.  *)
(* The representation is canonical (zero is [neg |-> FALSE, mag |-> <<>>]),*)
(* so = on integers is mathematical equality.                              *)
(***************************************************************************)
EXTENDS Integers, Sequences, FiniteSets

\* Width in bits of u128 and i128, the payloads of Const.
BITS == 128

---------------------------------------------------------------------------
(* Natural numbers: little-endian base-256 digit sequences.                *)

Digit(s, i) == IF i <= Len(s) THEN s[i] ELSE 0

RECURSIVE Norm(_)
Norm(s) ==
    IF s = << >> THEN << >>
    ELSE IF s[Len(s)] # 0 THEN s
    ELSE Norm(SubSeq(s, 1, Len(s) - 1))

RECURSIVE NatOf(_)
NatOf(k) == IF k = 0 THEN << >> ELSE <<k % 256>> \o NatOf(k \div 256)

\* 2^n as a digit sequence.
NatPow2(n) == [i \in 1..((n \div 8) + 1) |-> IF i = (n \div 8) + 1 THEN 2^(n % 8) ELSE 0]

RECURSIVE NatCmpFrom(_, _, _)
NatCmpFrom(x, y, i) ==
    IF i = 0 THEN 0
    ELSE IF x[i] < y[i] THEN -1
    ELSE IF x[i] > y[i] THEN 1
    ELSE NatCmpFrom(x, y, i - 1)

\* -1, 0, 1 as x < y, x = y, x > y.
NatCmp(x, y) ==
    IF Len(x) < Len(y) THEN -1
    ELSE IF Len(x) > Len(y) THEN 1
    ELSE NatCmpFrom(x, y, Len(x))

NatLt(x, y) == NatCmp(x, y) < 0
NatLe(x, y) == NatCmp(x, y) <= 0

RECURSIVE NatAddFrom(_, _, _, _)
NatAddFrom(x, y, i, c) ==
    IF i > Len(x) /\ i > Len(y)
    THEN (IF c = 0 THEN << >> ELSE <<c>>)
    ELSE LET t == Digit(x, i) + Digit(y, i) + c
         IN  <<t % 256>> \o NatAddFrom(x, y, i + 1, t \div 256)

NatAdd(x, y) == NatAddFrom(x, y, 1, 0)

RECURSIVE NatSubFrom(_, _, _, _)
NatSubFrom(x, y, i, c) ==
    IF i > Len(x) THEN << >>
    ELSE LET t == Digit(x, i) - Digit(y, i) - c
         IN  IF t < 0 THEN <<t + 256>> \o NatSubFrom(x, y, i + 1, 1)
             ELSE <<t>> \o NatSubFrom(x, y, i + 1, 0)

\* x - y for x >= y.
NatSub(x, y) == Norm(NatSubFrom(x, y, 1, 0))

RECURSIVE NatMulDigitFrom(_, _, _, _)
NatMulDigitFrom(x, d, i, c) ==
    IF i > Len(x) THEN (IF c = 0 THEN << >> ELSE <<c>>)
    ELSE LET t == x[i] * d + c
         IN  <<t % 256>> \o NatMulDigitFrom(x, d, i + 1, t \div 256)

NatMulDigit(x, d) == IF d = 0 THEN << >> ELSE NatMulDigitFrom(x, d, 1, 0)

\* d * x + 256 * hi.
NatMulStep(hi, x, d) ==
    IF hi = << >> THEN NatMulDigit(x, d)
    ELSE NatAdd(NatMulDigit(x, d), <<0>> \o hi)

\* x times the digits j.. of y.
RECURSIVE NatMulFrom(_, _, _)
NatMulFrom(x, y, j) ==
    IF j > Len(y) THEN << >>
    ELSE NatMulStep(NatMulFrom(x, y, j + 1), x, y[j])

NatMul(x, y) == IF x = << >> THEN << >> ELSE NatMulFrom(x, y, 1)

\* Bit i (0 = least significant) of x.
NatBit(x, i) == (Digit(x, (i \div 8) + 1) \div 2^(i % 8)) % 2

\* The natural number whose bit i is b[i], for b a function on 0..(8 * n - 1).
NatFromBits(b, n) ==
    Norm([j \in 1..n |->
            b[8*(j-1)] + 2*b[8*(j-1)+1] + 4*b[8*(j-1)+2] + 8*b[8*(j-1)+3]
            + 16*b[8*(j-1)+4] + 32*b[8*(j-1)+5] + 64*b[8*(j-1)+6] + 128*b[8*(j-1)+7]])

\* The largest d in 0..255 with d * y <= r, found bit by bit from w = 128 down
\* (r < 256 * y).
RECURSIVE NatQuotDigit(_, _, _, _)
NatQuotDigit(y, r, d, w) ==
    IF w = 0 THEN d
    ELSE IF NatLe(NatMulDigit(y, d + w), r)
         THEN NatQuotDigit(y, r, d + w, w \div 2)
         ELSE NatQuotDigit(y, r, d, w \div 2)

\* One step of long division: from [q, r] for the digits above digit d of the
\* dividend to [q, r] with that digit included.
NatDivStep(q, r, d, y) ==
    IF r = << >> /\ d = 0 THEN [q |-> <<0>> \o q, r |-> << >>]
    ELSE LET r2 == Norm(<<d>> \o r)
             qd == NatQuotDigit(y, r2, 0, 128)
         IN  [q |-> <<qd>> \o q, r |-> NatSub(r2, NatMulDigit(y, qd))]

\* Long division, digit by digit from the top: [q, r] for the digits i.. of x.
RECURSIVE NatDivModFrom(_, _, _)
NatDivModFrom(x, y, i) ==
    IF i > Len(x) THEN [q |-> << >>, r |-> << >>]
    ELSE LET p == NatDivModFrom(x, y, i + 1)
         IN  NatDivStep(p.q, p.r, x[i], y)

\* [q, r] with x = q * y + r and r < y, for y # 0.
NatDivMod(x, y) ==
    LET p == NatDivModFrom(x, y, 1) IN [q |-> Norm(p.q), r |-> p.r]

\* x mod 2^(8 * n): the low n digits.
NatLow(x, n) == Norm(SubSeq(x, 1, IF Len(x) < n THEN Len(x) ELSE n))

---------------------------------------------------------------------------
(* Integers: sign and magnitude.                                           *)

MkInt(neg, mag) == [neg |-> neg /\ mag # << >>, mag |-> mag]

IntOf(k) == IF k < 0 THEN MkInt(TRUE, NatOf(-k)) ELSE MkInt(FALSE, NatOf(k))

IntPow2(n) == MkInt(FALSE, NatPow2(n))

IntNeg(x) == MkInt(~x.neg, x.mag)

\* -1, 0, 1 as x < y, x = y, x > y.
IntCmp(x, y) ==
    IF x.neg /\ ~y.neg THEN -1
    ELSE IF ~x.neg /\ y.neg THEN 1
    ELSE IF x.neg THEN NatCmp(y.mag, x.mag)
    ELSE NatCmp(x.mag, y.mag)

IntLt(x, y) == IntCmp(x, y) < 0
IntLe(x, y) == IntCmp(x, y) <= 0

IntAdd(x, y) ==
    IF x.neg = y.neg THEN MkInt(x.neg, NatAdd(x.mag, y.mag))
    ELSE IF NatLe(y.mag, x.mag) THEN MkInt(x.neg, NatSub(x.mag, y.mag))
    ELSE MkInt(y.neg, NatSub(y.mag, x.mag))

IntSub(x, y) == IntAdd(x, IntNeg(y))

IntMul(x, y) == MkInt(x.neg # y.neg, NatMul(x.mag, y.mag))

\* Quotient and remainder rounding toward zero (the remainder has the sign of
\* x), for y # 0: what / and % of the machine integers compute.
IntQuot(x, y) == MkInt(x.neg # y.neg, NatDivMod(x.mag, y.mag).q)
IntRem(x, y) == MkInt(x.neg, NatDivMod(x.mag, y.mag).r)

---------------------------------------------------------------------------
(* The machine integers u128 and i128.                                     *)

U128_MAX == IntSub(IntPow2(BITS), IntOf(1))
I128_MAX == IntSub(IntPow2(BITS - 1), IntOf(1))
I128_MIN == IntNeg(IntPow2(BITS - 1))

InU128(x) == ~x.neg /\ IntLe(x, U128_MAX)
InI128(x) == IntLe(I128_MIN, x) /\ IntLe(x, I128_MAX)

\* `x as u128` for an i128 x: the two's-complement bit pattern of x.
CastU128(x) == IF x.neg THEN IntAdd(x, IntPow2(BITS)) ELSE x

\* `x as i128` for a u128 x: the pattern read with bit 127 as the sign.
CastI128(x) == IF IntLe(IntPow2(BITS - 1), x) THEN IntSub(x, IntPow2(BITS)) ELSE x

\* An integer reduced modulo 2^128: the low 128 bits of its two's complement.
WrapU128(x) ==
    LET low == MkInt(FALSE, NatLow(x.mag, BITS \div 8))
    IN  IF x.neg /\ low.mag # << >> THEN IntSub(IntPow2(BITS), low) ELSE low

WrapI128(x) == CastI128(WrapU128(x))

\* Bit i of a u128 pattern.
Bit(x, i) == NatBit(x.mag, i)

\* The u128 whose bit i is b[i], i in 0..127.
FromBits(b) == MkInt(FALSE, NatFromBits(b, BITS \div 8))

\* x << n, x >> n (zero filling) and x >> n (filling with bit 127) on a 128-bit
\* pattern, n in 0..127.
ShlBits(x, n) == FromBits([i \in 0..(BITS - 1) |-> IF i >= n THEN Bit(x, i - n) ELSE 0])
LshrBits(x, n) == FromBits([i \in 0..(BITS - 1) |-> IF i + n < BITS THEN Bit(x, i + n) ELSE 0])
AshrBits(x, n) ==
    FromBits([i \in 0..(BITS - 1) |-> IF i + n < BITS THEN Bit(x, i + n) ELSE Bit(x, BITS - 1)])

AndBits(x, y) == FromBits([i \in 0..(BITS - 1) |-> Bit(x, i) * Bit(y, i)])
OrBits(x, y) == FromBits([i \in 0..(BITS - 1) |-> Bit(x, i) + Bit(y, i) - Bit(x, i) * Bit(y, i)])
XorBits(x, y) == FromBits([i \in 0..(BITS - 1) |-> (Bit(x, i) + Bit(y, i)) % 2])

---------------------------------------------------------------------------
(* The program: Const and its operators.                                   *)

VARIABLES
    overflow_checks,  \* the build profile: are arithmetic overflow checks compiled in
    op,               \* the operation applied: "none" before one is
    a,                \* its left operand or receiver (self)
    b,                \* its right operand (rhs) when it is binary
    amt,              \* its u8 shift amount when it is a shift
    sel,              \* its FieldSelector when it is apply
    out               \* its outcome: the value returned, or Panic

vars == <<overflow_checks, op, a, b, amt, sel, out>>

\* enum Const { Unsigned(u128), Signed(i128) }
Unsigned(x) == [tag |-> "Unsigned", val |-> x]
Signed(x) == [tag |-> "Signed", val |-> x]

\* The outcome of an operation that panics instead of returning.
Panic == [tag |-> "Panic", val |-> IntOf(0)]

\* Results that are not a Const: a u128, an i128, a bool.
U128(x) == [tag |-> "u128", val |-> x]
I128(x) == [tag |-> "i128", val |-> x]
Bool(x) == [tag |-> "bool", val |-> IF x THEN IntOf(1) ELSE IntOf(0)]

\* No operand, no result.
None == [tag |-> "None", val |-> IntOf(0)]

is_zero(self) == self.val = IntOf(0)

\* Mutant: a range-checked conversion, a negative value clamped to 0.
as_u128_clamped(self) ==
    IF self.tag = "Unsigned" \/ ~self.val.neg THEN self.val ELSE IntOf(0)

as_u128(self) == IF self.tag = "Unsigned" THEN self.val ELSE CastU128(self.val)

as_i128(self) == IF self.tag = "Unsigned" THEN CastI128(self.val) ELSE self.val

\* impl From<u128> for Const
from_u128(x) == Unsigned(x)

\* Mutant: the addition wraps instead of saturating.
U128WrappingAdd(x, y) == WrapU128(IntAdd(x, y))

\* u128::saturating_add, i128::saturating_add and the two saturating_sub.
U128SaturatingAdd(x, y) ==
    LET t == IntAdd(x, y) IN IF InU128(t) THEN t ELSE U128_MAX
I128SaturatingAdd(x, y) ==
    LET t == IntAdd(x, y)
    IN  IF InI128(t) THEN t ELSE IF t.neg THEN I128_MIN ELSE I128_MAX
U128SaturatingSub(x, y) ==
    LET t == IntSub(x, y) IN IF InU128(t) THEN t ELSE IntOf(0)
I128SaturatingSub(x, y) ==
    LET t == IntSub(x, y)
    IN  IF InI128(t) THEN t ELSE IF t.neg THEN I128_MIN ELSE I128_MAX

\* Mutant: the variant of the right operand decides the domain.
add_in_rhs_domain(self, rhs) ==
    IF rhs.tag = "Unsigned"
    THEN Unsigned(U128SaturatingAdd(as_u128(self), rhs.val))
    ELSE Signed(I128SaturatingAdd(as_i128(self), rhs.val))

add(self, rhs) ==
    IF self.tag = "Unsigned"
    THEN Unsigned(U128SaturatingAdd(self.val, as_u128(rhs)))
    ELSE Signed(I128SaturatingAdd(self.val, as_i128(rhs)))

sub(self, rhs) ==
    IF self.tag = "Unsigned"
    THEN Unsigned(U128SaturatingSub(self.val, as_u128(rhs)))
    ELSE Signed(I128SaturatingSub(self.val, as_i128(rhs)))

\* The operator *: an overflowing product panics where overflow checks are
\* compiled in and wraps where they are not.
mul(self, rhs) ==
    IF self.tag = "Unsigned"
    THEN LET t == IntMul(self.val, as_u128(rhs))
         IN  IF InU128(t) THEN Unsigned(t)
             ELSE IF overflow_checks THEN Panic
             ELSE Unsigned(WrapU128(t))
    ELSE LET t == IntMul(self.val, as_i128(rhs))
         IN  IF InI128(t) THEN Signed(t)
             ELSE IF overflow_checks THEN Panic
             ELSE Signed(WrapI128(t))

\* Mutant: a zero divisor yields the domain's maximum instead of a panic.
div_or_max(self, rhs) ==
    IF self.tag = "Unsigned"
    THEN LET d == as_u128(rhs)
         IN  IF d = IntOf(0) THEN Unsigned(U128_MAX) ELSE Unsigned(IntQuot(self.val, d))
    ELSE LET d == as_i128(rhs)
         IN  IF d = IntOf(0) THEN Signed(I128_MAX)
             ELSE IF self.val = I128_MIN /\ d = IntOf(-1) THEN Panic
             ELSE Signed(IntQuot(self.val, d))

\* The operator /: a zero divisor panics in every build, and so does the one
\* overflowing signed quotient, i128::MIN / -1.
div(self, rhs) ==
    IF self.tag = "Unsigned"
    THEN LET d == as_u128(rhs)
         IN  IF d = IntOf(0) THEN Panic ELSE Unsigned(IntQuot(self.val, d))
    ELSE LET d == as_i128(rhs)
         IN  IF d = IntOf(0) THEN Panic
             ELSE IF self.val = I128_MIN /\ d = IntOf(-1) THEN Panic
             ELSE Signed(IntQuot(self.val, d))

\* The operator %: panics as / does.
rem(self, rhs) ==
    IF self.tag = "Unsigned"
    THEN LET d == as_u128(rhs)
         IN  IF d = IntOf(0) THEN Panic ELSE Unsigned(IntRem(self.val, d))
    ELSE LET d == as_i128(rhs)
         IN  IF d = IntOf(0) THEN Panic
             ELSE IF self.val = I128_MIN /\ d = IntOf(-1) THEN Panic
             ELSE Signed(IntRem(self.val, d))

\* Unary - on an i128: -i128::MIN overflows (a panic with overflow checks, the
\* wrapped value i128::MIN without).
I128Neg(x) ==
    IF x = I128_MIN
    THEN (IF overflow_checks THEN Panic ELSE Signed(I128_MIN))
    ELSE Signed(IntNeg(x))

\* Mutant: an Unsigned value is negated in its own domain and stays Unsigned.
neg_keeps_variant(self) ==
    IF self.tag = "Unsigned" THEN Unsigned(WrapU128(IntNeg(self.val)))
    ELSE I128Neg(self.val)

neg(self) ==
    IF self.tag = "Unsigned" THEN I128Neg(CastI128(self.val)) ELSE I128Neg(self.val)

\* Mutant: the right shift of a Signed value fills with zeros.
shr_logical(self, rhs) ==
    IF rhs >= BITS /\ overflow_checks THEN Panic
    ELSE IF self.tag = "Unsigned" THEN Unsigned(LshrBits(self.val, rhs % BITS))
    ELSE Signed(CastI128(LshrBits(CastU128(self.val), rhs % BITS)))

\* A shift by the u8 rhs: an amount of 128 or more panics with overflow checks
\* and is taken modulo 128 without.
shr(self, rhs) ==
    IF rhs >= BITS /\ overflow_checks THEN Panic
    ELSE IF self.tag = "Unsigned" THEN Unsigned(LshrBits(self.val, rhs % BITS))
    ELSE Signed(CastI128(AshrBits(CastU128(self.val), rhs % BITS)))

shl(self, rhs) ==
    IF rhs >= BITS /\ overflow_checks THEN Panic
    ELSE IF self.tag = "Unsigned" THEN Unsigned(ShlBits(self.val, rhs % BITS))
    ELSE Signed(CastI128(ShlBits(CastU128(self.val), rhs % BITS)))

\* Mutant: the Signed arm of & copied from |.
bitand_signed_or(self, rhs) ==
    IF self.tag = "Unsigned" THEN Unsigned(AndBits(self.val, as_u128(rhs)))
    ELSE Signed(CastI128(OrBits(CastU128(self.val), CastU128(as_i128(rhs)))))

bitand(self, rhs) ==
    IF self.tag = "Unsigned" THEN Unsigned(AndBits(self.val, as_u128(rhs)))
    ELSE Signed(CastI128(AndBits(CastU128(self.val), CastU128(as_i128(rhs)))))

bitor(self, rhs) ==
    IF self.tag = "Unsigned" THEN Unsigned(OrBits(self.val, as_u128(rhs)))
    ELSE Signed(CastI128(OrBits(CastU128(self.val), CastU128(as_i128(rhs)))))

bitxor(self, rhs) ==
    IF self.tag = "Unsigned" THEN Unsigned(XorBits(self.val, as_u128(rhs)))
    ELSE Signed(CastI128(XorBits(CastU128(self.val), CastU128(as_i128(rhs)))))

\* Mutant: the mask built from length, (1u128 << f.length) - 1.
FieldMaskOfLength(length) ==
    IF length >= BITS /\ overflow_checks THEN Panic
    ELSE from_u128(IntSub(ShlBits(IntOf(1), length % BITS), IntOf(1)))

\* ((1u128 << (f.length - 1)) - 1).into(): the u8 subtraction underflows for
\* length 0 and the shift overflows for length - 1 >= 128 (a panic with overflow
\* checks; wrapped to 255 and taken modulo 128 without).
FieldMask(length) ==
    IF length = 0 /\ overflow_checks THEN Panic
    ELSE LET k == (length + 255) % 256
         IN  IF k >= BITS /\ overflow_checks THEN Panic
             ELSE from_u128(IntSub(ShlBits(IntOf(1), k % BITS), IntOf(1)))

\* (self >> f.offset) & mask, the left operand evaluated first.
apply(self, f) ==
    LET s == shr(self, f.offset)
    IN  IF s = Panic THEN Panic
        ELSE LET m == FieldMask(f.length)
             IN  IF m = Panic THEN Panic ELSE bitand(s, m)

---------------------------------------------------------------------------
(* The inputs the operations are applied to.                               *)

\* How far from each boundary value (0, 2^127, the minima and maxima of the two
\* domains, 128 and 255 for the u8 inputs) the inputs are drawn.
Near == 1

\* 0x0123456789ABCDEFFEDCBA9876543210, a value with bits in every digit.
Pattern == MkInt(FALSE, <<16, 50, 84, 118, 152, 186, 220, 254, 239, 205, 171, 137, 103, 69, 35, 1>>)

U128Inputs ==
    UNION {{IntOf(d),
            IntAdd(IntPow2(BITS - 1), IntOf(d)),
            IntSub(I128_MAX, IntOf(d)),
            IntSub(U128_MAX, IntOf(d))} : d \in 0..Near}
    \cup {IntOf(2), IntOf(5), IntOf(255), Pattern}

I128Inputs ==
    UNION {{IntOf(d), IntOf(-d),
            IntSub(I128_MAX, IntOf(d)),
            IntAdd(I128_MIN, IntOf(d))} : d \in 0..Near}
    \cup {IntOf(2), IntOf(5), IntOf(-5), IntOf(255), IntNeg(Pattern)}

Consts == {Unsigned(x) : x \in U128Inputs} \cup {Signed(x) : x \in I128Inputs}

\* The u8 values apply is given as offsets and lengths.
U8Inputs ==
    UNION {{d, 127 - d, 128 + d, 255 - d} : d \in 0..Near} \cup {8, 64}

\* The u8 values a shift is given as its amount: every one.
ShiftAmounts == 0..255

FieldSelectors == [offset : U8Inputs, length : U8Inputs]

NoSelector == [offset |-> 0, length |-> 0]

---------------------------------------------------------------------------
(* The state machine: a caller applies one operation to inputs of its      *)
(* choice; the operation returns a value or panics.                        *)

Init ==
    /\ overflow_checks \in BOOLEAN
    /\ op = "none"
    /\ a = None
    /\ b = None
    /\ amt = 0
    /\ sel = NoSelector
    /\ out = None

Add ==
    /\ op = "none"
    /\ \E x \in Consts, y \in Consts :
          /\ a' = x
          /\ b' = y
          /\ out' = add(x, y)
    /\ op' = "add"
    /\ UNCHANGED <<overflow_checks, amt, sel>>

Sub ==
    /\ op = "none"
    /\ \E x \in Consts, y \in Consts :
          /\ a' = x
          /\ b' = y
          /\ out' = sub(x, y)
    /\ op' = "sub"
    /\ UNCHANGED <<overflow_checks, amt, sel>>

Mul ==
    /\ op = "none"
    /\ \E x \in Consts, y \in Consts :
          /\ a' = x
          /\ b' = y
          /\ out' = mul(x, y)
    /\ op' = "mul"
    /\ UNCHANGED <<overflow_checks, amt, sel>>

Div ==
    /\ op = "none"
    /\ \E x \in Consts, y \in Consts :
          /\ a' = x
          /\ b' = y
          /\ out' = div(x, y)
    /\ op' = "div"
    /\ UNCHANGED <<overflow_checks, amt, sel>>

Rem ==
    /\ op = "none"
    /\ \E x \in Consts, y \in Consts :
          /\ a' = x
          /\ b' = y
          /\ out' = rem(x, y)
    /\ op' = "rem"
    /\ UNCHANGED <<overflow_checks, amt, sel>>

BitAnd ==
    /\ op = "none"
    /\ \E x \in Consts, y \in Consts :
          /\ a' = x
          /\ b' = y
          /\ out' = bitand(x, y)
    /\ op' = "bitand"
    /\ UNCHANGED <<overflow_checks, amt, sel>>

BitOr ==
    /\ op = "none"
    /\ \E x \in Consts, y \in Consts :
          /\ a' = x
          /\ b' = y
          /\ out' = bitor(x, y)
    /\ op' = "bitor"
    /\ UNCHANGED <<overflow_checks, amt, sel>>

BitXor ==
    /\ op = "none"
    /\ \E x \in Consts, y \in Consts :
          /\ a' = x
          /\ b' = y
          /\ out' = bitxor(x, y)
    /\ op' = "bitxor"
    /\ UNCHANGED <<overflow_checks, amt, sel>>

Neg ==
    /\ op = "none"
    /\ \E x \in Consts :
          /\ a' = x
          /\ out' = neg(x)
    /\ op' = "neg"
    /\ UNCHANGED <<overflow_checks, b, amt, sel>>

IsZero ==
    /\ op = "none"
    /\ \E x \in Consts :
          /\ a' = x
          /\ out' = Bool(is_zero(x))
    /\ op' = "is_zero"
    /\ UNCHANGED <<overflow_checks, b, amt, sel>>

AsU128 ==
    /\ op = "none"
    /\ \E x \in Consts :
          /\ a' = x
          /\ out' = U128(as_u128(x))
    /\ op' = "as_u128"
    /\ UNCHANGED <<overflow_checks, b, amt, sel>>

AsI128 ==
    /\ op = "none"
    /\ \E x \in Consts :
          /\ a' = x
          /\ out' = I128(as_i128(x))
    /\ op' = "as_i128"
    /\ UNCHANGED <<overflow_checks, b, amt, sel>>

Shr ==
    /\ op = "none"
    /\ \E x \in Consts, n \in ShiftAmounts :
          /\ a' = x
          /\ amt' = n
          /\ out' = shr(x, n)
    /\ op' = "shr"
    /\ UNCHANGED <<overflow_checks, b, sel>>

Shl ==
    /\ op = "none"
    /\ \E x \in Consts, n \in ShiftAmounts :
          /\ a' = x
          /\ amt' = n
          /\ out' = shl(x, n)
    /\ op' = "shl"
    /\ UNCHANGED <<overflow_checks, b, sel>>

Apply ==
    /\ op = "none"
    /\ \E x \in Consts, f \in FieldSelectors :
          /\ a' = x
          /\ sel' = f
          /\ out' = apply(x, f)
    /\ op' = "apply"
    /\ UNCHANGED <<overflow_checks, b, amt>>

Next ==
    \/ Div \/ Rem \/ Add \/ Sub \/ Mul
    \/ BitAnd \/ BitOr \/ BitXor
    \/ Neg \/ IsZero \/ AsU128 \/ AsI128
    \/ Shr \/ Shl \/ Apply

Spec == Init /\ [][Next]_vars

---------------------------------------------------------------------------
(* The properties.  Their reference values are computed on the integers,   *)
(* by sign and magnitude, not on bit patterns.                             *)

IsConst(r) == r.tag \in {"Unsigned", "Signed"}

\* x clamped into [lo, hi].
Clamp(x, lo, hi) == IF IntLt(x, lo) THEN lo ELSE IF IntLt(hi, x) THEN hi ELSE x

\* x mod 2^n, in 0..(2^n - 1): for x >= 0 the digits of x below bit n, and
\* for x < 0 what is left of 2^n after them.
ModPow2(x, n) ==
    LET k   == IF Len(x.mag) < (n \div 8) + 1 THEN Len(x.mag) ELSE (n \div 8) + 1
        low == MkInt(FALSE, Norm([i \in 1..k |->
                   IF i = (n \div 8) + 1 THEN x.mag[i] % 2^(n % 8) ELSE x.mag[i]]))
    IN  IF x.neg /\ low # IntOf(0) THEN IntSub(IntPow2(n), low) ELSE low

\* The right operand widened into the domain of the left operand a: its value
\* modulo 2^128, taken in 0..(2^128 - 1) for an Unsigned a and in
\* -2^127..(2^127 - 1) for a Signed a.
Widened(x, y) ==
    LET u == ModPow2(y.val, BITS)
    IN  IF x.tag = "Unsigned" \/ IntLt(u, IntPow2(BITS - 1)) THEN u
        ELSE IntSub(u, IntPow2(BITS))

\* C1: a + b and a - b always return a value, which is the sum or difference
\* of a and of b widened into the domain of a, clamped into that domain:
\* [0, 2^128 - 1] for an Unsigned a, [-2^127, 2^127 - 1] for a Signed a.  So
\* Unsigned(2^128 - 1) + Unsigned(1) = Unsigned(2^128 - 1) and
\* Signed(-2^127) - Signed(1) = Signed(-2^127).
C1_AddSubSaturate ==
    op \in {"add", "sub"} =>
        LET r == Widened(a, b)
            m == IF op = "add" THEN IntAdd(a.val, r) ELSE IntSub(a.val, r)
        IN  /\ out # Panic
            /\ a.tag = "Unsigned" => out = Unsigned(Clamp(m, IntOf(0), U128_MAX))
            /\ a.tag = "Signed" => out = Signed(Clamp(m, I128_MIN, I128_MAX))
            /\ (op = "add" /\ a = Unsigned(U128_MAX) /\ b = Unsigned(IntOf(1)))
                   => out = Unsigned(U128_MAX)
            /\ (op = "sub" /\ a = Signed(I128_MIN) /\ b = Signed(IntOf(1)))
                   => out = Signed(I128_MIN)

\* A subtraction that underflows the signed domain has returned its minimum.
C1_Witness ==
    /\ op = "sub"
    /\ a = Signed(I128_MIN)
    /\ b = Signed(IntOf(1))
    /\ out = Signed(I128_MIN)

\* C2: a * b always returns a value, the product of a and of b widened into
\* the domain of a, reduced modulo 2^128 and read in the variant of a; so
\* Unsigned(2^127) * Unsigned(2) returns Unsigned(0).
C2_MulWraps ==
    op = "mul" =>
        LET m == ModPow2(IntMul(a.val, Widened(a, b)), BITS)
        IN  /\ out # Panic
            /\ a.tag = "Unsigned" => out = Unsigned(m)
            /\ a.tag = "Signed" =>
                   out = Signed(IF IntLt(m, IntPow2(BITS - 1)) THEN m
                                ELSE IntSub(m, IntPow2(BITS)))
            /\ (a = Unsigned(IntPow2(BITS - 1)) /\ b = Unsigned(IntOf(2)))
                   => out = Unsigned(IntOf(0))

C4_OnlyFailurePaths ==
    out = Panic =>
        \/ op \in {"div", "rem"} /\ is_zero(b)
        \/ op = "neg" /\ a = Signed(I128_MIN)

\* The selectors C5 and C10 are about: 0 <= offset <= 127, 1 <= length <= 128.
InRange(f) == f.offset < BITS /\ 1 <= f.length /\ f.length <= BITS

\* C5: for a selector in range, v.apply(f) is (v >> offset) & mask with
\* mask = 2^(length - 1) - 1, a mask of length - 1 bits and not of length, and
\* it has the variant of v; so offset 0, length 8 on Unsigned(0xFF) gives
\* Unsigned(0x7F).
C5_ApplyFormula ==
    (op = "apply" /\ InRange(sel)) =>
        LET mask == Unsigned(IntSub(IntPow2(sel.length - 1), IntOf(1)))
        IN  /\ out = bitand(shr(a, sel.offset), mask)
            /\ out.tag = a.tag
            /\ (a = Unsigned(IntOf(255)) /\ sel = [offset |-> 0, length |-> 8])
                   => out = Unsigned(IntOf(127))

\* The declared 8-bit field of 0xFF has lost its top bit.
C5_Witness ==
    /\ op = "apply"
    /\ a = Unsigned(IntOf(255))
    /\ sel = [offset |-> 0, length |-> 8]
    /\ out = Unsigned(IntOf(127))

\* The operator an operation name stands for.
Operator(name, x, y) ==
    CASE name = "add" -> add(x, y)
      [] name = "sub" -> sub(x, y)
      [] name = "mul" -> mul(x, y)
      [] name = "div" -> div(x, y)
      [] name = "rem" -> rem(x, y)
      [] name = "bitand" -> bitand(x, y)
      [] name = "bitor" -> bitor(x, y)
      [] name = "bitxor" -> bitxor(x, y)

BinaryOps == {"add", "sub", "mul", "div", "rem", "bitand", "bitor", "bitxor"}

\* C6: when a binary operator returns a value, the value has the variant of
\* the left operand a, and it is what the operator returns for a and the right
\* operand converted into the variant of a (Unsigned(b.as_u128()) for an
\* Unsigned a, Signed(b.as_i128()) for a Signed a); with operands of different
\* variants, swapping them changes the variant of the result.
C6_LeftVariant ==
    (op \in BinaryOps /\ out # Panic) =>
        /\ out.tag = a.tag
        /\ a.tag = "Unsigned" => out = Operator(op, a, Unsigned(as_u128(b)))
        /\ a.tag = "Signed" => out = Operator(op, a, Signed(as_i128(b)))
        /\ (a.tag # b.tag /\ Operator(op, b, a) # Panic)
               => Operator(op, b, a).tag = b.tag

\* A mixed addition has returned a value of its left operand's variant.
C6_Witness ==
    /\ op = "add"
    /\ a = Unsigned(IntOf(5))
    /\ b = Signed(IntOf(-1))
    /\ out = Unsigned(U128_MAX)

\* C7: negation returns the Signed variant.  For Unsigned(x), with s the value
\* of the 128-bit pattern of x read as signed (x below 2^127, x - 2^128 from
\* there on) and s # -2^127, the result is Signed(-s), so -Unsigned(5) is
\* Signed(-5); for Signed(s) with s # -2^127 it is Signed(-s); and negating
\* Signed(-2^127) does not return a value that is zero or more.
C7_Negation ==
    op = "neg" =>
        LET s == Widened(Signed(IntOf(0)), a)
        IN  /\ out # Panic => out.tag = "Signed"
            /\ s # I128_MIN => out = Signed(IntSub(IntOf(0), s))
            /\ a = Unsigned(IntOf(5)) => out = Signed(IntOf(-5))
            /\ a = Signed(I128_MIN) => (out = Panic \/ out.val.neg)

\* An Unsigned value has been negated into a Signed one.
C7_Witness ==
    /\ op = "neg"
    /\ a = Unsigned(IntOf(5))
    /\ out = Signed(IntOf(-5))

\* C8: as_u128 of Signed(s) is s mod 2^128 (s + 2^128 for s < 0, so
\* Signed(-1).as_u128() is 2^128 - 1); as_i128 of Unsigned(x) is x below 2^127
\* and x - 2^128 from there on; each is the identity on a value of its own
\* domain; and each undoes the other.
C8_Widening ==
    /\ op = "as_u128" =>
           /\ out.val = ModPow2(a.val, BITS)
           /\ (a.tag = "Signed" /\ a.val.neg) => out.val = IntAdd(a.val, IntPow2(BITS))
           /\ a.tag = "Unsigned" => out.val = a.val
           /\ a = Signed(IntOf(-1)) => out.val = U128_MAX
           /\ a.tag = "Signed" => as_i128(Unsigned(out.val)) = a.val
    /\ op = "as_i128" =>
           /\ (a.tag = "Unsigned" /\ IntLt(a.val, IntPow2(BITS - 1))) => out.val = a.val
           /\ (a.tag = "Unsigned" /\ IntLe(IntPow2(BITS - 1), a.val))
                  => out.val = IntSub(a.val, IntPow2(BITS))
           /\ a.tag = "Signed" => out.val = a.val
           /\ a.tag = "Unsigned" => as_u128(Signed(out.val)) = a.val

\* A negative value has been widened to unsigned.
C8_Witness ==
    /\ op = "as_u128"
    /\ a = Signed(IntOf(-1))
    /\ out = U128(U128_MAX)

\* C9: for a shift amount n in 0..127, v >> n and v << n have the variant of v;
\* v >> n is floor(v / 2^n), for a Signed v too (so Signed(-1) >> n is
\* Signed(-1)); v << n is v * 2^n modulo 2^128, read in the variant of v.
C9_Shifts ==
    (op \in {"shr", "shl"} /\ amt < BITS) =>
        /\ out.tag = a.tag
        /\ op = "shr" =>
               /\ IntLe(IntMul(out.val, IntPow2(amt)), a.val)
               /\ IntLt(a.val, IntMul(IntAdd(out.val, IntOf(1)), IntPow2(amt)))
               /\ a = Signed(IntOf(-1)) => out = Signed(IntOf(-1))
        /\ op = "shl" =>
               /\ a.tag = "Unsigned" => ~out.val.neg /\ IntLe(out.val, U128_MAX)
               /\ a.tag = "Signed" => IntLe(I128_MIN, out.val) /\ IntLe(out.val, I128_MAX)
               /\ ModPow2(out.val, BITS) = ModPow2(IntMul(a.val, IntPow2(amt)), BITS)

\* A negative value has been shifted right and has stayed negative.
C9_Witness ==
    /\ op = "shr"
    /\ a = Signed(IntOf(-5))
    /\ amt = 1
    /\ out = Signed(IntOf(-3))

\* C10: for a selector in range and a v of either variant, the value m of
\* v.apply(f) satisfies 0 <= m < 2^(length - 1): it is not negative for a
\* negative v, bit length - 1 of it is 0, and length 1 gives zero.
C10_ApplyRange ==
    (op = "apply" /\ InRange(sel)) =>
        /\ IsConst(out)
        /\ ~out.val.neg
        /\ IntLt(out.val, IntPow2(sel.length - 1))
        /\ Bit(out.val, sel.length - 1) = 0
        /\ sel.length = 1 => is_zero(out)

\* A field of a negative value has been extracted, and it is not negative.
C10_Witness ==
    /\ op = "apply"
    /\ a = Signed(IntOf(-1))
    /\ sel = [offset |-> 127, length |-> 128]
    /\ out = Signed(I128_MAX)

====
